---- MODULE Spec2Model ----
(***************************************************************************)
(* A model of the SharePoint upload action: src/main.py (local scan,       *)
(* authentication, optional deletion sync, chunked upload of every local   *)
(* file) and the upload function of src/sharepoint_upload.py.              *)
(*                                                                         *)
(* Paths are sequences of names: <<"s", "b">> is the normalized relative   *)
(* path "s/b".  os.path.join appends a name, and replacing os.path.sep by  *)
(* '/' leaves such a sequence as it is.                                    *)
(***************************************************************************)
EXTENDS Integers, Sequences, FiniteSets, TLC

\* ------------------------------------------------------------------ bounds

\* Largest local file, in bytes.
MaxSize == 3
\* Largest chunk_size (the code's 4 MiB and 1 MiB, scaled down).
MaxChunk == 2
\* Children the remote store delivers in one response page (200, scaled down).
PageSize == 2
\* Non-success responses the remote store gives within one pass.
MaxFaults == 2

\* ------------------------------------------------------------------ paths

\* The names of the model, in the order Python's sorted() gives their strings.
NameOrder == <<".git", ".gitignore", "a", "b", "c", "o", "s", "x", "y">>

NameRank(n) == CHOOSE i \in 1..Len(NameOrder) : NameOrder[i] = n

\* p < q as Python compares the strings "a/b/c" (names here share no prefix
\* but ".git" / ".gitignore", which '/' < 'i' orders the same way).
RECURSIVE PathLess(_, _)
PathLess(p, q) ==
    IF p = <<>> THEN q # <<>>
    ELSE IF q = <<>> THEN FALSE
    ELSE IF Head(p) = Head(q) THEN PathLess(Tail(p), Tail(q))
    ELSE NameRank(Head(p)) < NameRank(Head(q))

\* Mutant: the list comes out in descending order.
sorted_descending(S) ==
    [i \in 1..Cardinality(S) |->
        CHOOSE x \in S : Cardinality({y \in S : PathLess(x, y)}) = i - 1]

\* sorted(list(S)) for a set S of paths.
sorted(S) ==
    [i \in 1..Cardinality(S) |->
        CHOOSE x \in S : Cardinality({y \in S : PathLess(y, x)}) = i - 1]

\* os.path.join(a, name) followed by .replace(os.path.sep, '/').
os_path_join(a, name) == Append(a, name)

IsUnder(d, p) == Len(d) < Len(p) /\ SubSeq(p, 1, Len(d)) = d

Parent(p) == SubSeq(p, 1, Len(p) - 1)

Last(p) == p[Len(p)]

\* Every proper ancestor directory of the paths of S, the root <<>> left out.
AncestorDirs(S) == UNION {{SubSeq(p, 1, k) : k \in 1..(Len(p) - 1)} : p \in S}

\* os.path.relpath(root, LOCAL_DIRECTORY_PATH): "." for the root itself.
relpath(d) == IF d = <<>> THEN <<".">> ELSE d

\* pathspec's normalize_file drops a leading "./".
normalize_file(p) == IF p # <<>> /\ Head(p) = "." THEN Tail(p) ELSE p

\* ------------------------------------------------------------------ state

VARIABLES
    \* the configuration and the local directory
    entry,           \* "main" (src/main.py) or "action" (src/sharepoint_upload.py)
    tree,            \* the local directory: file path -> size in bytes
    rules,           \* the paths the .gitignore rules match
    SYNC_DELETIONS,
    chunk_size,
    \* the script
    pc,              \* the position of the script
    local_files,
    token,
    stack,           \* the calls of get_remote_files_recursive in progress
    remote_files_map,
    to_delete,       \* what is left of sorted(list(files_to_delete))
    to_upload,       \* what is left of the upload loop's file list
    file_size,       \* locals of upload_file_to_sharepoint
    f_pos,           \* the read position of the open file f
    start_index,
    chunks_uploaded,
    reported,        \* the paths printed as "Successfully uploaded", in order
    exit_code,
    \* the remote store
    remote,          \* file path from the drive root -> [id, content]
    rfolders,        \* the folders that exist, as paths from the drive root
    session,         \* the upload session the store holds open
    \* history
    log,             \* the requests issued in this pass, in order
    prev_log,        \* the requests of the pass before
    run,             \* the pass: 1, or 2 for the pass run again
    faults           \* non-success responses given in this pass

config == <<entry, tree, rules, SYNC_DELETIONS, chunk_size>>

upload_locals == <<file_size, f_pos, start_index, chunks_uploaded>>

store == <<remote, rfolders, session>>

vars == <<entry, tree, rules, SYNC_DELETIONS, chunk_size, pc, local_files, token,
          stack, remote_files_map, to_delete, to_upload, file_size, f_pos,
          start_index, chunks_uploaded, reported, exit_code, remote, rfolders,
          session, log, prev_log, run, faults>>

\* --------------------------------------------------------------- local scan

\* spec.match_file(path) of the compiled PathSpec.
match_file(matched, p) == normalize_file(p) \in matched

\* os.path.exists(gitignore_path) and the PathSpec has patterns ("if spec:").
SpecPresent(t) == <<".gitignore">> \in DOMAIN t

ChildDirs(t, d) == {p[Len(d) + 1] : p \in {q \in DOMAIN t : IsUnder(d, q) /\ Len(q) > Len(d) + 1}}

ChildFiles(t, d) == {p[Len(d) + 1] : p \in {q \in DOMAIN t : IsUnder(d, q) /\ Len(q) = Len(d) + 1}}

\* Mutant: '.git' is not removed from dirs.
KeptDirs_keep_git(t, matched, d) ==
    IF SpecPresent(t)
    THEN {n \in ChildDirs(t, d) : ~match_file(matched, os_path_join(relpath(d), n))}
    ELSE ChildDirs(t, d)

\* The directories os.walk still descends into from d: '.git' removed, then
\* the directories the rules match filtered out in place.
KeptDirs(t, matched, d) ==
    LET dirs == ChildDirs(t, d) \ {".git"}
    IN IF SpecPresent(t)
       THEN {n \in dirs : ~match_file(matched, os_path_join(relpath(d), n))}
       ELSE dirs

\* The files of d that are added to local_files.
KeptFiles(t, matched, d) ==
    {os_path_join(d, f) : f \in
        {n \in ChildFiles(t, d) :
            ~SpecPresent(t) \/ ~match_file(matched, os_path_join(d, n))}}

\* The top-down os.walk from directory d.
RECURSIVE walk(_, _, _)
walk(t, matched, d) ==
    KeptFiles(t, matched, d)
        \cup UNION {walk(t, matched, os_path_join(d, n)) : n \in KeptDirs(t, matched, d)}

LocalScan ==
    /\ entry = "main"
    /\ pc = "start"
    /\ local_files' = walk(tree, rules, <<>>)
    /\ pc' = "auth"
    /\ UNCHANGED <<config, token, stack, remote_files_map, to_delete, to_upload,
                   upload_locals, reported, exit_code, store, log, prev_log, run,
                   faults>>

\* ------------------------------------------------------------ remote store

\* SHAREPOINT_BASE_FOLDER, as a path from the drive root.
SHAREPOINT_BASE_FOLDER == <<"base">>

\* The opaque identifier the store gives the item at path p.
ItemId(p) == <<"id">> \o p

NoSession == [path |-> <<>>, open |-> FALSE, received |-> <<>>]

EmptyDict == [p \in {} |-> <<>>]

\* A request as it is logged: the operation, the address it names, the item id
\* (a delete), the declared byte range <<start, end, total>> (a chunk) and the
\* response it got.
Req(op, path, id, range, resp) ==
    [op |-> op, path |-> path, id |-> id, range |-> range, resp |-> resp]

Min(a, b) == IF a < b THEN a ELSE b

\* The bytes of the local file at relative path p: byte i holds i.
Content(t, p) == [i \in 1..t[p] |-> i]

\* What a remote file held before the pass.
OldContent == <<0>>

\* The children of folder f, as the store lists them: by name, each with its
\* type facet, name and id.
ChildItems(files, folders, f) ==
    LET fnames == {Last(q) : q \in {r \in DOMAIN files : Parent(r) = f}}
        dnames == {Last(q) : q \in {r \in folders : r # <<>> /\ Parent(r) = f}}
        order  == sorted({<<n>> : n \in fnames \cup dnames})
    IN [i \in 1..Len(order) |->
            [name |-> order[i][1],
             kind |-> IF order[i][1] \in fnames THEN "file" ELSE "folder",
             id   |-> ItemId(os_path_join(f, order[i][1]))]]

\* The 'value' of the response to a children request: the first page only.
FirstPage(files, folders, f) ==
    LET all == ChildItems(files, folders, f)
    IN SubSeq(all, 1, Min(Len(all), PageSize))

\* The store after DELETE /items/{id} answered 204.
StoreDelete(files, id) ==
    [q \in {r \in DOMAIN files : files[r].id # id} |-> files[q]]

\* The store after it accepted a chunk: the bytes are appended to the session
\* and, when the declared total is reached, the file replaces what the
\* destination held and its parent folders come to exist.
SessionAfter(s, data, total) ==
    IF Len(s.received) + Len(data) = total THEN NoSession
    ELSE [s EXCEPT !.received = s.received \o data]

FilesAfter(files, s, data, total) ==
    IF Len(s.received) + Len(data) = total
    THEN [q \in DOMAIN files \cup {s.path} |->
            IF q = s.path
            THEN [id |-> ItemId(s.path), content |-> s.received \o data]
            ELSE files[q]]
    ELSE files

FoldersAfter(folders, s, data, total) ==
    IF Len(s.received) + Len(data) = total
    THEN folders \cup AncestorDirs({s.path})
    ELSE folders

\* ------------------------------------------------- get_remote_files_recursive

\* A call of get_remote_files_recursive: its item_path, whether its children
\* request was answered, the items its loop has still to visit and its
\* remote_files dictionary.
NewFrame(item_path) ==
    [item_path |-> item_path, requested |-> FALSE, items |-> <<>>,
     remote_files |-> EmptyDict]

dict_set(d, k, v) == [q \in DOMAIN d \cup {k} |-> IF q = k THEN v ELSE d[q]]

dict_update(d, e) ==
    [q \in DOMAIN d \cup DOMAIN e |-> IF q \in DOMAIN e THEN e[q] ELSE d[q]]

\* api_path: root:/BASE for the top-level call, root:/BASE/item_path below it.
api_path(item_path) == SHAREPOINT_BASE_FOLDER \o item_path

\* What one item of the loop does to the call on top of the stack.
VisitItem(stk, item) ==
    LET n            == Len(stk)
        top          == stk[n]
        current_path == os_path_join(top.item_path, item.name)
        rest         == [top EXCEPT !.items = Tail(top.items)]
    IN IF item.kind = "file"
       THEN [stk EXCEPT ![n] =
                [rest EXCEPT !.remote_files = dict_set(top.remote_files, current_path, item.id)]]
       ELSE IF item.kind = "folder"
       THEN Append([stk EXCEPT ![n] = rest], NewFrame(current_path))
       ELSE [stk EXCEPT ![n] = rest]

\* A call returns: its dictionary updates the caller's.
ReturnFrame(stk) ==
    LET n      == Len(stk)
        caller == stk[n - 1]
    IN [SubSeq(stk, 1, n - 1) EXCEPT ![n - 1] =
            [caller EXCEPT !.remote_files =
                dict_update(caller.remote_files, stk[n].remote_files)]]

\* The item loops run on from an answered call until the next children request
\* is due (a call not yet requested is on top) or the top-level call returns.
RECURSIVE run_loop(_)
run_loop(stk) ==
    LET n   == Len(stk)
        top == stk[n]
        \* One more turn, on the stack that the turn before left.
        turn(next) == CHOOSE r \in {run_loop(s) : s \in {next}} : TRUE
    IN IF ~top.requested
       THEN [stack |-> stk, returned |-> FALSE, result |-> EmptyDict]
       ELSE IF top.items # <<>>
       THEN turn(VisitItem(stk, Head(top.items)))
       ELSE IF n = 1
       THEN [stack |-> <<>>, returned |-> TRUE, result |-> top.remote_files]
       ELSE turn(ReturnFrame(stk))

\* The call on top of the stack after its children request was answered:
\* "200" with the items, "404" caught by the except clause (return {}).
Answered(stk, resp, items) ==
    LET n == Len(stk)
    IN [stk EXCEPT ![n] =
            [@ EXCEPT !.requested = TRUE,
                      !.items = IF resp = "200" THEN items ELSE <<>>,
                      !.remote_files = EmptyDict]]

\* ------------------------------------------------------------------ actions

\* A non-success response the store is free to give: within the pass's budget.
MayFail == faults < MaxFaults

\* The store serves a request only with a bearer token ("Bearer None" gets 401).
Authorized == token # "None"

\* Where the script stands once the upload loop is over a list of files.
UploadPc(files) == IF files = <<>> THEN "done" ELSE "upload"

\* Mutant: the token is acquired a second time before the branch.
Auth_again(result) ==
    /\ entry = "main"
    /\ pc = "auth"
    /\ token' = result
    /\ log' = log \o <<Req("token", <<>>, <<>>, <<>>, result),
                       Req("token", <<>>, <<>>, <<>>, result)>>
    /\ IF SYNC_DELETIONS
       THEN /\ pc' = "list"
            /\ stack' = <<NewFrame(<<>>)>>
            /\ UNCHANGED to_upload
       ELSE /\ to_upload' = sorted(local_files)
            /\ pc' = UploadPc(to_upload')
            /\ UNCHANGED stack
    /\ UNCHANGED <<config, local_files, remote_files_map, to_delete, upload_locals,
                   reported, exit_code, store, prev_log, run, faults>>

\* Mutant: the listing is started whatever SYNC_DELETIONS holds.
Auth_always_sync(result) ==
    /\ entry = "main"
    /\ pc = "auth"
    /\ token' = result
    /\ log' = Append(log, Req("token", <<>>, <<>>, <<>>, result))
    /\ pc' = "list"
    /\ stack' = <<NewFrame(<<>>)>>
    /\ UNCHANGED <<config, local_files, remote_files_map, to_delete, to_upload,
                   upload_locals, reported, exit_code, store, prev_log, run, faults>>

\* get_access_token, then the branch on SYNC_DELETIONS: the first children
\* request is due, or the upload loop starts.  The token is not tested.
Auth(result) ==
    /\ entry = "main"
    /\ pc = "auth"
    /\ token' = result
    /\ log' = Append(log, Req("token", <<>>, <<>>, <<>>, result))
    /\ IF SYNC_DELETIONS
       THEN /\ pc' = "list"
            /\ stack' = <<NewFrame(<<>>)>>
            /\ UNCHANGED to_upload
       ELSE /\ to_upload' = sorted(local_files)
            /\ pc' = UploadPc(to_upload')
            /\ UNCHANGED stack
    /\ UNCHANGED <<config, local_files, remote_files_map, to_delete, upload_locals,
                   reported, exit_code, store, prev_log, run, faults>>

\* The files of the local directory in an order os.walk(topdown=True) can
\* yield them: a directory's own files before those of the directories below.
WalkOrders(S) ==
    {o \in [1..Cardinality(S) -> S] :
        /\ \A i, j \in 1..Cardinality(S) : i # j => o[i] # o[j]
        /\ \A i, j \in 1..Cardinality(S) :
              IsUnder(Parent(o[i]), Parent(o[j])) => i < j}

\* sharepoint_upload.py: the token first and, only with a token, the walk that
\* uploads each file it keeps.
ActionAuth(result) ==
    /\ entry = "action"
    /\ pc = "start"
    /\ token' = result
    /\ log' = Append(log, Req("token", <<>>, <<>>, <<>>, result))
    /\ IF result # "None"
       THEN /\ to_upload' \in WalkOrders(walk(tree, rules, <<>>))
            /\ pc' = UploadPc(to_upload')
       ELSE /\ pc' = "done"
            /\ UNCHANGED to_upload
    /\ UNCHANGED <<config, local_files, stack, remote_files_map, to_delete,
                   upload_locals, reported, exit_code, store, prev_log, run, faults>>

\* Mutants of the except clause: every failure is taken for a missing folder;
\* a missing folder is taken for a failure.
returns_empty_any(resp) == resp # "200"

returns_empty_never(resp) == FALSE

\* The except clause: an HTTPError with status 404 returns {}, any other exits.
returns_empty(resp) == resp = "404"

\* Mutant: the local set is not subtracted.
files_to_delete_all(map, local) == DOMAIN map

\* files_to_delete = remote_files_set - local_files
files_to_delete(map, local) == DOMAIN map \ local

\* One children request of get_remote_files_recursive and everything up to the
\* next request: the item loops, the returns, and after the top-level return
\* the deletion set and the branch on it.
Children(resp) ==
    LET top     == stack[Len(stack)]
        address == api_path(top.item_path)
        exists  == address \in rfolders
        listed  == run_loop(Answered(stack, resp, FirstPage(remote, rfolders, address)))
    IN /\ pc = "list"
       /\ resp \in {"200", "404", "error"}
       /\ ~Authorized => resp = "error"
       /\ (Authorized /\ ~exists) => resp = "404"
       /\ (Authorized /\ exists /\ resp # "200") => MayFail
       /\ faults' = IF Authorized /\ exists /\ resp # "200" THEN faults + 1 ELSE faults
       /\ log' = Append(log, Req("children", address, <<>>, <<>>, resp))
       /\ IF resp = "200" \/ returns_empty(resp)
          THEN \E after \in {listed} :
               \E doomed \in {files_to_delete(after.result, local_files)} :
               /\ stack' = after.stack
               /\ exit_code' = exit_code
               /\ IF after.returned
                  THEN /\ remote_files_map' = after.result
                       /\ to_delete' = sorted(doomed)
                       /\ IF doomed # {}
                          THEN pc' = "delete" /\ UNCHANGED to_upload
                          ELSE /\ to_upload' = sorted(local_files)
                               /\ pc' = UploadPc(to_upload')
                  ELSE UNCHANGED <<pc, remote_files_map, to_delete, to_upload>>
          ELSE /\ pc' = "aborted"
               /\ exit_code' = 1
               /\ UNCHANGED <<stack, remote_files_map, to_delete, to_upload>>
       /\ UNCHANGED <<config, local_files, token, upload_locals, reported, store,
                      prev_log, run>>

\* Mutant: a failed deletion is tried again.
RemainingDeletes_retry(queue, resp) == IF resp = "204" THEN Tail(queue) ELSE queue

\* What is left of the deletion loop after one turn: delete_sharepoint_item
\* only prints the outcome, so the loop moves on whatever the response.
RemainingDeletes(queue, resp) == Tail(queue)

\* One turn of the deletion loop: delete_sharepoint_item for the next path.
Delete(resp) ==
    LET file_path == Head(to_delete)
        item_id   == remote_files_map[file_path]
    IN /\ pc = "delete"
       /\ resp \in {"204", "error"}
       /\ LET served == Authorized /\ \E q \in DOMAIN remote : remote[q].id = item_id
          IN /\ ~served => resp = "error"
             /\ (served /\ resp # "204") => MayFail
             /\ faults' = IF served /\ resp # "204" THEN faults + 1 ELSE faults
       /\ log' = Append(log, Req("delete", file_path, item_id, <<>>, resp))
       /\ remote' = IF resp = "204" THEN StoreDelete(remote, item_id) ELSE remote
       /\ to_delete' = RemainingDeletes(to_delete, resp)
       /\ IF to_delete' = <<>>
          THEN /\ to_upload' = sorted(local_files)
               /\ pc' = UploadPc(to_upload')
          ELSE UNCHANGED <<pc, to_upload>>
       /\ UNCHANGED <<config, local_files, token, stack, remote_files_map,
                      upload_locals, reported, exit_code, rfolders, session,
                      prev_log, run>>

\* session_response.status_code != 200 returns; 200 goes on.
session_ok(resp) == resp = "200"

\* Mutant: a rejected chunk does not end the upload.
chunk_ok_always(resp) == TRUE

\* 200 <= upload_response.status_code <= 204
chunk_ok(resp) == resp = "accepted"

\* Mutant: the read at the end of the file is not taken for empty.
read_is_empty_late(size, pos) == pos > size

\* "if not chunk: break": the read at position pos of a file of the given size
\* yields nothing.
read_is_empty(size, pos) == pos >= size

\* upload_file_to_sharepoint up to its first chunk request: the session is
\* requested for the destination; a response other than 200 returns; else the
\* file is sized and opened, and a first read that yields nothing (an empty
\* file) leaves the loop at once and prints the success line.  The two early
\* returns sharepoint_upload.py adds (the local file is gone, a 200 response
\* without uploadUrl) need a file that vanishes during the walk or a response
\* the store does not give, and are left out.
Open(resp) ==
    LET relative_path   == Head(to_upload)
        sharepoint_path == SHAREPOINT_BASE_FOLDER \o relative_path
        size            == tree[relative_path]
    IN /\ pc = "upload"
       /\ resp \in {"200", "error"}
       /\ ~Authorized => resp = "error"
       /\ (Authorized /\ resp # "200") => MayFail
       /\ faults' = IF Authorized /\ resp # "200" THEN faults + 1 ELSE faults
       /\ log' = Append(log, Req("open", sharepoint_path, <<>>, <<>>, resp))
       /\ IF session_ok(resp)
          THEN /\ session' = [path |-> sharepoint_path, open |-> TRUE, received |-> <<>>]
               /\ file_size' = size
               /\ f_pos' = 0
               /\ start_index' = 0
               /\ chunks_uploaded' = 0
               /\ IF read_is_empty(size, 0)
                  THEN /\ reported' = Append(reported, sharepoint_path)
                       /\ to_upload' = Tail(to_upload)
                       /\ pc' = UploadPc(to_upload')
                  ELSE /\ pc' = "chunk"
                       /\ UNCHANGED <<reported, to_upload>>
          ELSE /\ to_upload' = Tail(to_upload)
               /\ pc' = UploadPc(to_upload')
               /\ UNCHANGED <<session, upload_locals, reported>>
       /\ UNCHANGED <<config, local_files, token, stack, remote_files_map, to_delete,
                      exit_code, remote, rfolders, prev_log, run>>

\* Mutant: the read returns one byte at a time.
ChunkLen_one(size, pos, csize) == 1

\* len(chunk) of the read at position pos of a file of the given size.
ChunkLen(size, pos, csize) == Min(csize, size - pos)

\* start_index of the chunk about to be sent: main.py carries it from turn to
\* turn, sharepoint_upload.py takes it from chunks_uploaded.
ChunkStart(e, si, cu) == IF e = "main" THEN si ELSE cu

\* end_index = start_index + len(chunk) - 1
ChunkEnd(start, len) == start + len - 1

\* Mutants: the cursor stays on the last byte sent; it skips a byte.
NextCursor_same(end_index) == end_index

NextCursor_skip(end_index) == end_index + 2

\* The cursor after an accepted chunk: end_index + 1.
NextCursor(end_index) == end_index + 1

\* One turn of the chunk loop and the read that follows it: the chunk is put
\* with its Content-Range; a response outside 200..204 returns; else the cursor
\* advances and, when the next read yields nothing, the success line is printed.
Chunk(resp) ==
    LET relative_path   == Head(to_upload)
        sharepoint_path == SHAREPOINT_BASE_FOLDER \o relative_path
        len             == ChunkLen(tree[relative_path], f_pos, chunk_size)
        data            == SubSeq(Content(tree, relative_path), f_pos + 1, f_pos + len)
        start           == ChunkStart(entry, start_index, chunks_uploaded)
        end_index       == ChunkEnd(start, len)
        in_order        == session.open /\ start = Len(session.received)
                             /\ end_index - start + 1 = Len(data)
                             /\ Len(session.received) + Len(data) <= file_size
    IN /\ pc = "chunk"
       /\ resp \in {"accepted", "rejected"}
       /\ ~in_order => resp = "rejected"
       /\ (in_order /\ resp = "rejected") => MayFail
       /\ faults' = IF in_order /\ resp = "rejected" THEN faults + 1 ELSE faults
       /\ log' = Append(log, Req("chunk", sharepoint_path, <<>>, <<start, end_index, file_size>>, resp))
       /\ IF resp = "accepted"
          THEN /\ session' = SessionAfter(session, data, file_size)
               /\ remote' = FilesAfter(remote, session, data, file_size)
               /\ rfolders' = FoldersAfter(rfolders, session, data, file_size)
          ELSE UNCHANGED store
       /\ IF chunk_ok(resp)
          THEN /\ f_pos' = f_pos + len
               /\ IF entry = "main"
                  THEN /\ start_index' = NextCursor(end_index)
                       /\ UNCHANGED chunks_uploaded
                  ELSE /\ start_index' = start
                       /\ chunks_uploaded' = NextCursor(end_index)
               /\ IF read_is_empty(tree[relative_path], f_pos')
                  THEN /\ reported' = Append(reported, sharepoint_path)
                       /\ to_upload' = Tail(to_upload)
                       /\ pc' = UploadPc(to_upload')
                  ELSE UNCHANGED <<pc, reported, to_upload>>
          ELSE /\ to_upload' = Tail(to_upload)
               /\ pc' = UploadPc(to_upload')
               /\ UNCHANGED <<f_pos, start_index, chunks_uploaded, reported>>
       /\ UNCHANGED <<config, local_files, token, stack, remote_files_map, to_delete,
                      file_size, exit_code, prev_log, run>>

\* The pass is run a second time, on the same local directory and the remote
\* store as the first pass left it, after a first pass that met no failure.
Rerun ==
    /\ entry = "main"
    /\ pc = "done"
    /\ run = 1
    /\ faults = 0
    /\ Authorized
    /\ run' = 2
    /\ prev_log' = log
    /\ log' = <<>>
    /\ pc' = "start"
    /\ local_files' = {}
    /\ token' = "unset"
    /\ stack' = <<>>
    /\ remote_files_map' = EmptyDict
    /\ to_delete' = <<>>
    /\ to_upload' = <<>>
    /\ file_size' = 0
    /\ f_pos' = 0
    /\ start_index' = 0
    /\ chunks_uploaded' = 0
    /\ reported' = <<>>
    /\ session' = NoSession
    /\ UNCHANGED <<config, exit_code, remote, rfolders, faults>>

\* ------------------------------------------------------------ specifications

\* The script's variables before its first statement.
Fresh ==
    /\ pc = "start"
    /\ local_files = {}
    /\ token = "unset"
    /\ stack = <<>>
    /\ remote_files_map = EmptyDict
    /\ to_delete = <<>>
    /\ to_upload = <<>>
    /\ file_size = 0
    /\ f_pos = 0
    /\ start_index = 0
    /\ chunks_uploaded = 0
    /\ reported = <<>>
    /\ exit_code = 0
    /\ session = NoSession
    /\ log = <<>>
    /\ prev_log = <<>>
    /\ run = 1
    /\ faults = 0

\* The local files a pass is run on (a '.git' directory is always there), and
\* the files the remote base folder may hold before it.
PassFiles == {<<"a">>, <<"s", "b">>}

RemoteUniverse == {<<"a">>, <<"x">>, <<"s", "b">>, <<"s", "y">>}

\* A remote store: the files R under the base folder, one file outside it.
StoreOf(R, base) ==
    /\ remote = [q \in {SHAREPOINT_BASE_FOLDER \o r : r \in R} \cup {<<"o">>} |->
                    [id |-> ItemId(q), content |-> OldContent]]
    /\ rfolders = IF base
                  THEN AncestorDirs({SHAREPOINT_BASE_FOLDER \o r : r \in R})
                          \cup {SHAREPOINT_BASE_FOLDER}
                  ELSE {}

Init ==
    /\ Fresh
    /\ entry \in {"main", "action"}
    /\ \E S \in SUBSET PassFiles :
          \E sizes \in [S -> {0, MaxSize}] :
              tree = [q \in S \cup {<<".git", "c">>} |-> IF q \in S THEN sizes[q] ELSE 1]
    /\ rules = {}
    /\ SYNC_DELETIONS \in (IF entry = "main" THEN BOOLEAN ELSE {FALSE})
    /\ chunk_size = MaxChunk
    /\ \E R \in SUBSET RemoteUniverse :
          \E base \in BOOLEAN : (R # {} => base) /\ StoreOf(R, base)

Next ==
    \/ LocalScan
    \/ \E result \in {"tok", "None"} : Auth(result)
    \/ \E result \in {"tok", "None"} : ActionAuth(result)
    \/ \E resp \in {"200", "404", "error"} : Children(resp)
    \/ \E resp \in {"204", "error"} : Delete(resp)
    \/ \E resp \in {"200", "error"} : Open(resp)
    \/ \E resp \in {"accepted", "rejected"} : Chunk(resp)
    \/ Rerun

Spec == Init /\ [][Next]_vars

\* The script is one thread and every request it makes is answered, so a step
\* that can be taken is taken.
SpecLive == Spec /\ WF_vars(Next)

\* The local scan alone, over every local directory and every rule set.
ScanFiles ==
    {<<".gitignore">>, <<"a">>, <<"s", "b">>, <<".git", "c">>, <<"s", ".git", "c">>,
     <<"x", ".git">>}

ScanRules == {<<"a">>, <<"s">>, <<"s", "b">>, <<"x">>, <<"x", ".git">>}

InitScan ==
    /\ Fresh
    /\ entry = "main"
    /\ \E S \in SUBSET ScanFiles : tree = [q \in S |-> 1]
    /\ rules \in SUBSET ScanRules
    /\ SYNC_DELETIONS = FALSE
    /\ chunk_size = MaxChunk
    /\ StoreOf({}, FALSE)

SpecScan == InitScan /\ [][LocalScan]_vars

\* One call of upload_file_to_sharepoint alone, over every file size and
\* chunk size, from either script.
InitUpload ==
    /\ Fresh
    /\ entry \in {"main", "action"}
    /\ \E size \in 0..MaxSize : tree = [q \in {<<"a">>} |-> size]
    /\ rules = {}
    /\ SYNC_DELETIONS = FALSE
    /\ chunk_size \in 1..MaxChunk
    /\ \E R \in SUBSET {<<"a">>} : StoreOf(R, TRUE)

\* The call: upload_file_to_sharepoint(token, ..., "a", BASE/a).
Call ==
    /\ pc = "start"
    /\ token' = "tok"
    /\ to_upload' = <<(<<"a">>)>>
    /\ pc' = "upload"
    /\ UNCHANGED <<config, local_files, stack, remote_files_map, to_delete,
                   upload_locals, reported, exit_code, store, log, prev_log, run,
                   faults>>

NextUpload ==
    \/ Call
    \/ \E resp \in {"200", "error"} : Open(resp)
    \/ \E resp \in {"accepted", "rejected"} : Chunk(resp)

SpecUpload == InitUpload /\ [][NextUpload]_vars

\* ------------------------------------------------------------------ claims

\* The requests of log l with operation op, in order.
Ops(l, op) == SelectSeq(l, LAMBDA e : e.op = op)

Paths(l) == {l[i].path : i \in 1..Len(l)}

\* Every request of l got its success response.
AllSucceeded(l) == \A i \in 1..Len(l) : l[i].resp \in {"tok", "200", "204", "accepted"}

\* The files under the remote base folder, by path relative to it.
UnderBase == {SubSeq(q, 2, Len(q)) : q \in {r \in DOMAIN remote : IsUnder(SHAREPOINT_BASE_FOLDER, r)}}

\* The listing has just returned to the script: its last request is the last
\* request issued.
ListingReturned ==
    /\ pc \in {"delete", "upload", "done"}
    /\ log # <<>>
    /\ log[Len(log)].op = "children"

\* C1: with deletion sync enabled, a delete request is issued for exactly the
\* keys of the remote index that are not in the local path set: never for a
\* local path, once the deletion loop is over exactly once for every other
\* key, and each with the item id the index maps the path to.
C1_DeletesAreTheDifference ==
    LET dels == Ops(log, "delete")
    IN (entry = "main" /\ SYNC_DELETIONS) =>
          /\ \A i \in 1..Len(dels) :
                /\ dels[i].path \notin local_files
                /\ dels[i].path \in DOMAIN remote_files_map
                /\ dels[i].id = remote_files_map[dels[i].path]
          /\ \A i, j \in 1..Len(dels) : dels[i].path = dels[j].path => i = j
          /\ pc \in {"upload", "chunk", "done"} =>
                Paths(dels) = DOMAIN remote_files_map \ local_files

C1_Witness ==
    /\ entry = "main" /\ SYNC_DELETIONS /\ pc = "done"
    /\ Len(Ops(log, "delete")) >= 2
    /\ DOMAIN remote_files_map \cap local_files # {}

\* C2 (as claimed): when get_access_token returns None no children, delete,
\* upload-session or chunk request is issued, in either script.
C2_NoRequestWithoutToken ==
    token = "None" => \A i \in 1..Len(log) : log[i].op = "token"

\* C3: the byte ranges one upload declares start at 0, each next one starts at
\* the previous end + 1, every one declares the file's size as the total, and
\* when the upload is reported they cover [0, fileSize) exactly.
C3_RangesAreContiguous ==
    LET ch   == Ops(log, "chunk")
        size == tree[<<"a">>]
    IN /\ \A i \in 1..Len(ch) :
             /\ ch[i].range[3] = size
             /\ ch[i].range[1] <= ch[i].range[2]
             /\ ch[i].range[1] = IF i = 1 THEN 0 ELSE ch[i - 1].range[2] + 1
       /\ reported # <<>> =>
             IF size = 0 THEN ch = <<>> ELSE ch[Len(ch)].range[2] = size - 1

C3_Witness ==
    /\ entry = "action"
    /\ reported # <<>>
    /\ Len(Ops(log, "chunk")) >= 2
    /\ tree[<<"a">>] % chunk_size # 0

\* C4: a children request that fails with an HTTP error other than not-found,
\* at any depth, is the last thing the pass does: the process is over with
\* exit status 1, no delete request and no upload session was issued, and
\* nothing of the partial listing reached the script.
C4_ListingErrorAborts ==
    entry = "main" =>
        \A i \in 1..Len(log) :
            (log[i].op = "children" /\ log[i].resp = "error") =>
                /\ i = Len(log)
                /\ pc = "aborted"
                /\ exit_code = 1
                /\ Ops(log, "delete") = <<>>
                /\ Ops(log, "open") = <<>>
                /\ remote_files_map = EmptyDict
                /\ to_delete = <<>>
                /\ ~ENABLED Next

C4_Witness ==
    /\ pc = "aborted"
    /\ Len(Ops(log, "children")) >= 2
    /\ stack[1].remote_files # EmptyDict
    /\ Authorized

\* C5 (as claimed): a children request of a subfolder that gets not-found, or
\* any other failure, aborts the pass.
C5_SubfolderFailureAborts ==
    entry = "main" =>
        \A i \in 1..Len(log) :
            (/\ log[i].op = "children"
             /\ log[i].path # SHAREPOINT_BASE_FOLDER
             /\ log[i].resp # "200") => pc = "aborted"

\* C6 (as claimed): when every children request succeeded, the mapping the
\* listing returns has exactly one entry per file under the base folder, keyed
\* by the path relative to it and mapped to the file's item id.
C6_ListingIsExact ==
    (entry = "main" /\ ListingReturned /\ AllSucceeded(log)) =>
        remote_files_map =
            [r \in UnderBase |-> remote[SHAREPOINT_BASE_FOLDER \o r].id]

\* C7: with deletion sync enabled and a not-found answer for the base folder,
\* the listing is one request that returns the empty mapping, nothing is
\* deleted, the pass does not abort, and an upload session is requested for
\* every file of the local path set.
C7_MissingBaseIsEmpty ==
    (/\ entry = "main"
     /\ \E i \in 1..Len(log) :
           /\ log[i].op = "children"
           /\ log[i].path = SHAREPOINT_BASE_FOLDER
           /\ log[i].resp = "404") =>
        /\ Len(Ops(log, "children")) = 1
        /\ remote_files_map = EmptyDict
        /\ Ops(log, "delete") = <<>>
        /\ pc \in {"upload", "chunk", "done"}
        /\ exit_code = 0
        /\ Paths(Ops(log, "open")) \cup {SHAREPOINT_BASE_FOLDER \o to_upload[i] : i \in 1..Len(to_upload)}
              = {SHAREPOINT_BASE_FOLDER \o q : q \in local_files}

C7_Witness ==
    /\ entry = "main" /\ SYNC_DELETIONS /\ pc = "done" /\ run = 1
    /\ Len(Ops(log, "children")) = 1
    /\ Ops(log, "children")[1].resp = "404"
    /\ Cardinality(local_files) = 2
    /\ Len(Ops(log, "open")) = 2

\* C8 (as claimed): after a pass with deletion sync in which every request
\* succeeded, the files under the remote base folder are exactly the local
\* path set, each with the content of the local file.
C8_RemoteMirrorsLocal ==
    (entry = "main" /\ SYNC_DELETIONS /\ pc = "done" /\ AllSucceeded(log)) =>
        /\ UnderBase = local_files
        /\ \A q \in local_files :
              remote[SHAREPOINT_BASE_FOLDER \o q].content = Content(tree, q)

\* The upload operations of a pass: the sessions opened and the chunks put,
\* with their destinations and byte ranges, in order.
Uploads(l) ==
    LET u == SelectSeq(l, LAMBDA e : e.op \in {"open", "chunk"})
    IN [i \in 1..Len(u) |-> <<u[i].op, u[i].path, u[i].range>>]

\* C9 (as claimed): a second pass with deletion sync, on the same local tree
\* and with every request succeeding, repeats the upload operations of the
\* first and issues no delete request.
C9_SecondPassRepeats ==
    (run = 2 /\ SYNC_DELETIONS /\ pc = "done" /\ AllSucceeded(log)) =>
        /\ Uploads(log) = Uploads(prev_log)
        /\ Ops(log, "delete") = <<>>

\* The rules match relative path p (no rules without a .gitignore).
Ignored(p) == SpecPresent(tree) /\ p \in rules

\* C10: the scan keeps a file if and only if the rules match neither its
\* relative path nor the relative path of a directory above it, and no
\* directory above it is named '.git'.
C10_ScanKeepsTheUnignored ==
    pc = "auth" =>
        local_files =
            {f \in DOMAIN tree :
                /\ ~Ignored(f)
                /\ \A d \in AncestorDirs({f}) : ~Ignored(d) /\ Last(d) # ".git"}

C10_Witness ==
    /\ pc = "auth"
    /\ SpecPresent(tree)
    /\ <<"s">> \in rules /\ <<"s", "b">> \notin rules
    /\ <<"s", "b">> \in DOMAIN tree
    /\ <<"s", ".git", "c">> \in DOMAIN tree
    /\ <<".git", "c">> \in DOMAIN tree
    /\ <<"x", ".git">> \in local_files

\* The cursor of the upload session: start_index in main.py, chunks_uploaded
\* in sharepoint_upload.py.
Cursor == IF entry = "main" THEN start_index ELSE chunks_uploaded

\* The step put a chunk, and the store accepted it.
PutChunk == log' # log /\ log'[Len(log')].op = "chunk"

\* C11: within an upload session the cursor starts at 0, never decreases,
\* moves only on an accepted chunk and then by that chunk's length, never
\* exceeds the declared total, and a chunk is put only while it is below it.
C11_CursorIsMonotone ==
    [][/\ (pc = "upload" /\ pc' = "chunk") => Cursor' = 0
       /\ Cursor' >= Cursor
       /\ Cursor' <= file_size'
       /\ Cursor' # Cursor =>
             /\ PutChunk
             /\ log'[Len(log')].resp = "accepted"
             /\ Cursor' - Cursor = ChunkLen(tree[<<"a">>], f_pos, chunk_size)
             /\ Cursor' - Cursor = Len(session'.received) - Len(session.received)
                   \/ ~session'.open
       /\ PutChunk =>
             /\ Cursor < file_size
             /\ log'[Len(log')].range = <<Cursor, Cursor + ChunkLen(tree[<<"a">>], f_pos, chunk_size) - 1, file_size>>
             /\ log'[Len(log')].resp = "rejected" => Cursor' = Cursor
      ]_vars

C11_Witness ==
    /\ entry = "main"
    /\ Len(Ops(log, "chunk")) = 2
    /\ start_index = file_size
    /\ file_size = MaxSize
    /\ reported # <<>>

\* The elements of a sequence, as a set.
Range(q) == {q[i] : i \in 1..Len(q)}

\* C12: a failed upload-session request is followed by no chunk of that file;
\* a rejected chunk is followed by no further request for that file; the
\* ranges put for one file never repeat or go back; a failed file is not
\* reported; the pass does not abort, and every local file has its upload
\* session requested, once.
C12_UploadFailureIsIsolated ==
    LET ch    == Ops(log, "chunk")
        opens == Ops(log, "open")
    IN entry = "main" =>
          /\ \A i \in 1..Len(log) :
                (log[i].op = "open" /\ log[i].resp # "200") =>
                    /\ \A j \in 1..Len(ch) : ch[j].path # log[i].path
                    /\ log[i].path \notin Range(reported)
                    /\ pc # "aborted" /\ exit_code = 0
          /\ \A i \in 1..Len(log) :
                (log[i].op = "chunk" /\ log[i].resp = "rejected") =>
                    /\ \A j \in (i + 1)..Len(log) : log[j].path # log[i].path
                    /\ log[i].path \notin Range(reported)
                    /\ pc # "aborted" /\ exit_code = 0
          /\ \A i, j \in 1..Len(ch) :
                (i < j /\ ch[i].path = ch[j].path) => ch[i].range[2] < ch[j].range[1]
          /\ Len(opens) = Cardinality(Paths(opens))
          /\ pc \in {"upload", "chunk", "done"} =>
                Paths(opens) \cup {SHAREPOINT_BASE_FOLDER \o q : q \in Range(to_upload)}
                    = {SHAREPOINT_BASE_FOLDER \o q : q \in local_files}
          /\ pc = "done" =>
                Paths(opens) = {SHAREPOINT_BASE_FOLDER \o q : q \in local_files}

C12_Witness ==
    /\ entry = "main" /\ pc = "done"
    /\ \E i \in 1..Len(log) :
          /\ log[i].op = "chunk" /\ log[i].resp = "rejected"
          /\ log[i].range[1] > 0
          /\ log[i].path = SHAREPOINT_BASE_FOLDER \o <<"a">>
    /\ reported = <<SHAREPOINT_BASE_FOLDER \o <<"s", "b">> >>

\* The deletion loop is over, or was never needed.
PastDeletion == pc \in {"upload", "chunk", "done"}

\* C13: the deletion loop issues one delete request per path of the deletion
\* set, in sorted order, whatever the responses: a failed deletion is neither
\* repeated nor does it stop the loop, and the upload loop still requests a
\* session for every local file.
C13_DeletionsAreIndependent ==
    LET dels   == Ops(log, "delete")
        doomed == sorted(DOMAIN remote_files_map \ local_files)
    IN (entry = "main" /\ dels # <<>>) =>
          /\ Len(dels) <= Len(doomed)
          /\ \A i \in 1..Len(dels) : dels[i].path = doomed[i]
          /\ pc = "delete" => Len(dels) + Len(to_delete) = Len(doomed)
          /\ PastDeletion => Len(dels) = Len(doomed)
          /\ pc \in {"delete", "upload", "chunk", "done"}
          /\ exit_code = 0
          /\ pc = "done" =>
                Paths(Ops(log, "open")) = {SHAREPOINT_BASE_FOLDER \o q : q \in local_files}

C13_Witness ==
    /\ entry = "main" /\ pc = "done"
    /\ Len(Ops(log, "delete")) >= 2
    /\ Ops(log, "delete")[1].resp = "error"
    /\ Ops(log, "delete")[2].resp = "204"
    /\ Authorized
    /\ Len(Ops(log, "open")) = 2

\* The phases in their order: START, LOCAL_SCAN done (AUTH due), DELETE_SYNC
\* (listing, then deleting), UPLOAD_ALL, and the end (DONE, or the abort).
PhaseRank(p) ==
    CASE p = "start" -> 0
      [] p = "auth" -> 1
      [] p = "list" -> 2
      [] p = "delete" -> 3
      [] p \in {"upload", "chunk"} -> 4
      [] OTHER -> 5

OpRank(op) ==
    CASE op = "token" -> 0
      [] op = "children" -> 1
      [] op = "delete" -> 2
      [] OTHER -> 3

\* C14: within a pass of main.py the phases only move forward; no request is
\* issued before the local scan is complete, and local_files never changes
\* after it; the token is requested once, before every other request; every
\* children request precedes every delete request, which the listing has
\* returned before, and every delete request precedes every upload request;
\* listing and deleting happen only with SYNC_DELETIONS.
C14_PhasesAreLinear ==
    [][(entry = "main" /\ run' = run) =>
          /\ PhaseRank(pc') >= PhaseRank(pc)
          /\ pc # "start" => local_files' = local_files
          /\ pc = "start" => log' = log
          /\ log' # <<>> =>
                /\ log'[1].op = "token"
                /\ Len(Ops(log', "token")) = 1
          /\ \A i, j \in 1..Len(log') :
                i < j => OpRank(log'[i].op) <= OpRank(log'[j].op)
          /\ token' # token => (pc = "auth" /\ log = <<>>)
          /\ (log' # log /\ log'[Len(log')].op = "delete") => stack = <<>>
          /\ pc' \in {"list", "delete"} => SYNC_DELETIONS
      ]_vars

C14_Witness ==
    /\ entry = "main" /\ pc = "done" /\ run = 1
    /\ Ops(log, "children") # <<>>
    /\ Ops(log, "delete") # <<>>
    /\ Ops(log, "chunk") # <<>>
    /\ Len(reported) = 2

\* C15: the upload loop requests one upload session per local path and none
\* for any other, in ascending order of the relative paths, whatever the
\* outcomes before; each names the base folder joined with the relative path.
C15_UploadsInSortedOrder ==
    LET opens == Ops(log, "open")
        dest(q) == SHAREPOINT_BASE_FOLDER \o q
    IN entry = "main" =>
          /\ \A i \in 1..Len(opens) :
                /\ \E q \in local_files : opens[i].path = dest(q)
                /\ \A q \in local_files :
                      PathLess(dest(q), opens[i].path) =>
                          \E k \in 1..(i - 1) : opens[k].path = dest(q)
          /\ \A i, j \in 1..Len(opens) :
                i < j => PathLess(opens[i].path, opens[j].path)
          /\ pc = "done" => Paths(opens) = {dest(q) : q \in local_files}

C15_Witness ==
    /\ entry = "main" /\ pc = "done"
    /\ Len(Ops(log, "open")) = 2
    /\ Ops(log, "open")[1].resp = "error"
    /\ \E i \in 1..Len(log) : log[i].op = "delete" /\ log[i].resp = "error"
    /\ Authorized

\* Some folder under the base folder has more children than a response page
\* holds.
SomeFolderIsPaged ==
    \E f \in rfolders :
        /\ (f = SHAREPOINT_BASE_FOLDER \/ IsUnder(SHAREPOINT_BASE_FOLDER, f))
        /\ Len(ChildItems(remote, rfolders, f)) > PageSize

\* C16 (as claimed): when a folder's children come split over several pages,
\* the listing follows every page, so the mapping holds the files of the later
\* pages too, and those absent locally are in the deletion set.
C16_LaterPagesAreListed ==
    (entry = "main" /\ ListingReturned /\ AllSucceeded(log) /\ SomeFolderIsPaged) =>
        /\ UnderBase \subseteq DOMAIN remote_files_map
        /\ UnderBase \ local_files \subseteq Range(to_delete)

\* C17: for a zero-byte file the upload requests a session and puts no chunk:
\* no step changes the remote store, so the destination is neither created
\* nor overwritten, and once the session is granted the file is reported as
\* uploaded.
C17_EmptyFileIsNeverWritten ==
    [][tree[<<"a">>] = 0 =>
          /\ remote' = remote
          /\ rfolders' = rfolders
          /\ Ops(log', "chunk") = <<>>
          /\ Len(Ops(log', "open")) <= 1
          /\ (log' # <<>> /\ log'[Len(log')].resp = "200") =>
                /\ pc' = "done"
                /\ reported' = <<SHAREPOINT_BASE_FOLDER \o <<"a">> >>
          /\ (log' # <<>> /\ log'[Len(log')].resp # "200") => reported' = <<>>
      ]_vars

C17_Witness ==
    /\ tree[<<"a">>] = 0
    /\ pc = "done"
    /\ reported = <<SHAREPOINT_BASE_FOLDER \o <<"a">> >>
    /\ Len(log) = 1
    /\ SHAREPOINT_BASE_FOLDER \o <<"a">> \notin DOMAIN remote

\* C18: with SYNC_DELETIONS off a pass of main.py issues no children and no
\* delete request and cannot abort; no remote file disappears, and only the
\* destinations of local files change content.
C18_NoSyncNoDeletion ==
    [][(entry = "main" /\ ~SYNC_DELETIONS) =>
          /\ Ops(log', "children") = <<>>
          /\ Ops(log', "delete") = <<>>
          /\ pc' # "aborted" /\ pc' # "list" /\ pc' # "delete"
          /\ exit_code' = 0
          /\ \A q \in DOMAIN remote :
                /\ q \in DOMAIN remote'
                /\ remote'[q] # remote[q] =>
                      \E f \in local_files : q = SHAREPOINT_BASE_FOLDER \o f
      ]_vars

C18_Witness ==
    /\ entry = "main" /\ ~SYNC_DELETIONS /\ pc = "done"
    /\ Len(reported) = 1
    /\ SHAREPOINT_BASE_FOLDER \o <<"x">> \in DOMAIN remote
    /\ SHAREPOINT_BASE_FOLDER \o <<"s", "y">> \in DOMAIN remote
    /\ <<"x">> \notin local_files
    /\ \E q \in DOMAIN remote : remote[q].content # OldContent

\* The pass is over: the last statement was reached, or exit(1).
Ended == pc \in {"done", "aborted"}

\* ceil(size / csize)
CeilDiv(size, csize) == (size + csize - 1) \div csize

\* The listing requests the children of a folder once, and only of the base
\* folder and of folders under it; an upload puts at most
\* ceil(fileSize / chunkSize) chunks.
RequestsAreBounded ==
    LET kids == Ops(log, "children")
        ch   == Ops(log, "chunk")
    IN /\ \A i, j \in 1..Len(kids) : kids[i].path = kids[j].path => i = j
       /\ \A i \in 1..Len(kids) :
             \/ kids[i].path = SHAREPOINT_BASE_FOLDER
             \/ kids[i].path \in rfolders /\ IsUnder(SHAREPOINT_BASE_FOLDER, kids[i].path)
       /\ \A q \in DOMAIN tree :
             Cardinality({i \in 1..Len(ch) : ch[i].path = SHAREPOINT_BASE_FOLDER \o q})
                <= CeilDiv(tree[q], chunk_size)

\* C19: every pass that starts ends, in DONE or in the abort of a failed
\* listing, whatever the store answers, and on the way the listing and the
\* upload loops stay within their request bounds.
C19_PassEndsWithinBounds ==
    /\ []RequestsAreBounded
    /\ (pc = "start") ~> Ended

C19_Witness ==
    /\ entry = "main" /\ pc = "done" /\ run = 2
    /\ Len(Ops(log, "children")) = 2
    /\ Len(Ops(log, "chunk")) = 2 * CeilDiv(MaxSize, chunk_size)
    /\ Len(reported) = 2

====
